---- MODULE Spec2Model ----
(***************************************************************************)
(* MIITensorParallelClient (mii/client.py): the fan-out coordinator with   *)
(* its task queue (self.tasks), result cache (self.results) and running    *)
(* flag (self.running), driven by one caller on one asyncio event loop.    *)
(*                                                                         *)
(* A call that blocks in run_until_complete is split at the blocking       *)
(* point: ...Begin enters the loop, ShardStep is one shard call finishing  *)
(* while the loop runs, ...End is the code after run_until_complete.       *)
(* The loop only runs inside run_until_complete, so shard calls advance    *)
(* only while pc # "idle".                                                 *)
(***************************************************************************)
EXTENDS Integers, Sequences, FiniteSets, TLC

\* ---- bounds ----
NumShards == 2      \* len(ports): endpoint clients of the coordinator
NumAddrs == 2       \* distinct values id(coro) can take
MaxFan == 3         \* fan-out coroutines created (query_non_block + query)

Shards == 0 .. (NumShards - 1)
Handles == 1 .. NumAddrs

\* Python's None as a returned value; every returned value is a tuple.
None == << >>

VARIABLES
    tasks,      \* self.tasks: sequence of {"id", "coro", "run"} records
    results,    \* self.results: sequence of {"id", "result"} records
    running,    \* self.running
    pc,         \* the caller: "idle", or blocked in "poll" / "query"
    cur,        \* locals of the blocked call: polled id, popped task, request
    responses,  \* responses[i] of the fan-out being awaited: "pending", "ok" or
                \* the failure the call raised
    background, \* shard calls of earlier fan-outs still pending on the loop
    ret,        \* what the last finished call returned, and the returning line
    nfan,       \* number of fan-out coroutines created so far
    taskKnown,  \* self.task in GRPC_METHOD_TABLE, fixed at construction
    wire,       \* remote methods invoked on the stubs so far
    issued,     \* history: handles returned by query_non_block so far
    owner,      \* history: handle -> request of the last submit that returned it
    started,    \* history: coroutines run by the drive step, in start order
    delivered,  \* history: handles for which a poll returned a result
    failed,     \* history: handles of tasks whose drive raised
    status      \* history: coro -> "queued" | "running" | "completed"

vars == << tasks, results, running, pc, cur, responses, background, ret, nfan,
           taskKnown, wire, issued, owner, started, delivered, failed, status >>

\* ---- helpers ----

\* The response shard i's endpoint produces for request req (what
\* client._request_async_response returns when it does not raise).  A
\* request dictionary is named by the number of the call that passed it.
ShardResult(req, i) == << req, i >>

\* id(coro) is the address of the coroutine object: unique among the objects
\* alive at the same time only.  The coroutines alive between calls are the
\* ones self.tasks still references.
LiveIds == { tasks[i].id : i \in 1 .. Len(tasks) }

NoTask == [id |-> 0, coro |-> 0, req |-> 0, run |-> FALSE]
NoCur == [id |-> 0, task |-> NoTask, req |-> 0, fan |-> 0]
\* for client in self.clients: responses.append(create_task(...))
AllPending == [i \in Shards |-> "pending"]

\* next((item for item in self.results if item["id"] == id), None)
HasResult(id) == \E i \in 1 .. Len(results) : results[i].id = id
FirstResult(id) ==
    results[CHOOSE i \in 1 .. Len(results) :
                /\ results[i].id = id
                /\ \A j \in 1 .. (i - 1) : results[j].id # id]

\* [item for item in self.results if item['id'] != id]
DropResults(id) == SelectSeq(results, LAMBDA item : item.id # id)

\* list.remove(x): drops the first element equal to x
RemoveFirst(seq, x) ==
    LET k == CHOOSE i \in 1 .. Len(seq) :
                 /\ seq[i] = x
                 /\ \A j \in 1 .. (i - 1) : seq[j] # x
    IN  [i \in 1 .. (Len(seq) - 1) |-> IF i < k THEN seq[i] ELSE seq[i + 1]]

\* self.tasks.append(...)
Enqueue_front(t) == << t >> \o tasks
Enqueue(t) == Append(tasks, t)

\* if not self.running and len(self.tasks) > 0
CanDrive_noflag == Len(tasks) > 0
CanDrive == ~running /\ Len(tasks) > 0

\* task = self.tasks[0]
NextTask_last == tasks[Len(tasks)]
NextTask == tasks[1]

\* if id == task['id']
DeliverInline_never(id, task) == FALSE
DeliverInline_always(id, task) == TRUE
DeliverInline(id, task) == id = task.id

\* await responses[0]; return responses[0]
Awaited_last == NumShards - 1
Awaited == 0

\* What client._request_async_response can raise: ValueError for a task
\* with no conversions (line 65), the stub's error (line 70), the unpack
\* function's error (line 71).
Failures == {"UnknownTaskKind", "TransportFailure", "MalformedResponse"}

\* What a call that reached its stub (line 70) can end in.
Outcomes == {"ok", "TransportFailure", "MalformedResponse"}

\* lines 64-70, up to the first await: a call of a known task packs its
\* request and invokes the remote method, a call of an unknown task raises
\* first.  Every client of one coordinator has the same task.
FirstStep(known) == IF known THEN "pending" ELSE "UnknownTaskKind"
StubCalls_unchecked(known) == NumShards
StubCalls(known) == IF known THEN NumShards ELSE 0

\* for client in self.clients: create_task(client._request_async_response(...))
\* and the first step of each created task
FanOut == [i \in Shards |-> FirstStep(taskKnown)]

\* The calls create_task started that nothing awaits: when
\* run_until_complete returns they stay pending on the stopped loop.
LeftPending == Cardinality({ i \in Shards : responses[i] = "pending" })

\* ---- initial state: __init__ lines 98-100 ----
Init ==
    /\ tasks = << >>
    /\ results = << >>
    /\ running = FALSE
    /\ pc = "idle"
    /\ cur = NoCur
    /\ responses = AllPending
    /\ background = 0
    /\ ret = [op |-> "none", id |-> 0, kind |-> "none", val |-> None, line |-> 0]
    /\ nfan = 0
    /\ taskKnown \in BOOLEAN
    /\ wire = 0
    /\ issued = {}
    /\ owner = [h \in Handles |-> 0]
    /\ started = << >>
    /\ delivered = {}
    /\ failed = {}
    /\ status = << >>

\* ---- __init__ ----
\* The attributes lines 94-96 have set when line 97 calls
\* _initialize_grpc_client, and the attributes that method reads (lines 104,
\* 105, 114).
InitAttrs == {"task", "clients", "asyncio_loop"}
GrpcReads == {"num_gpus", "port_number", "stubs"}

\* MIITensorParallelClient(task_name, host, ports) with n ports: a read of
\* an attribute that was never set raises AttributeError, and lines 98-100
\* are not reached.  Construction is the first call a caller makes; the
\* registry the other operations work on is the one lines 98-100 describe.
Construct(n) ==
    /\ pc = "idle"
    /\ ret.op \in {"none", "init"}
    /\ ret' = IF GrpcReads \subseteq InitAttrs
              THEN [op |-> "init", id |-> n, kind |-> "Built", val |-> None,
                    line |-> 100]
              ELSE [op |-> "init", id |-> n, kind |-> "AttributeError",
                    val |-> None, line |-> 104]
    /\ UNCHANGED << tasks, results, running, pc, cur, responses, background, nfan,
                    taskKnown, wire, issued, owner, started, delivered, failed,
                    status >>

\* ---- query_non_block ----
Submit(req, h) ==
    /\ pc = "idle"
    /\ nfan < MaxFan
    /\ h \notin LiveIds
    /\ tasks' = Enqueue([id |-> h, coro |-> nfan + 1, req |-> req, run |-> FALSE])
    /\ nfan' = nfan + 1
    /\ ret' = [op |-> "submit", id |-> 0, kind |-> "Handle", val |-> << h >>,
               line |-> 150]
    /\ issued' = issued \cup {h}
    /\ owner' = [owner EXCEPT ![h] = req]
    /\ status' = status @@ ((nfan + 1) :> "queued")
    /\ UNCHANGED << results, running, pc, cur, responses, background, taskKnown,
                    wire, started, delivered, failed >>

\* ---- get_pending_task_result ----
\* lines 153-156: the cache holds an entry for id
PollCached(id) ==
    /\ pc = "idle"
    /\ HasResult(id)
    /\ results' = DropResults(id)
    /\ ret' = [op |-> "poll", id |-> id, kind |-> "Ready",
               val |-> FirstResult(id).result, line |-> 156]
    /\ delivered' = delivered \cup {id}
    /\ UNCHANGED << tasks, running, pc, cur, responses, background, nfan,
                    taskKnown, wire, issued, owner, started, failed, status >>

\* lines 153, 158, 173: no cache entry and no drive step
PollIdle(id) ==
    /\ pc = "idle"
    /\ ~HasResult(id)
    /\ ~CanDrive
    /\ ret' = [op |-> "poll", id |-> id, kind |-> "NotReady", val |-> None,
               line |-> 173]
    /\ UNCHANGED << tasks, results, running, pc, cur, responses, background, nfan,
                    taskKnown, wire, issued, owner, started, delivered, failed, status >>

\* lines 158-164: the drive step up to run_until_complete(task['coro']),
\* whose coroutine creates one call per client (lines 118-123)
PollBegin(id) ==
    /\ pc = "idle"
    /\ ~HasResult(id)
    /\ CanDrive
    /\ LET task == NextTask IN
        /\ running' = TRUE
        /\ tasks' = RemoveFirst(tasks, task)
        /\ cur' = [id |-> id, task |-> task, req |-> task.req, fan |-> task.coro]
        /\ started' = Append(started, task.coro)
        /\ status' = [status EXCEPT ![task.coro] = "running"]
    /\ responses' = FanOut
    /\ wire' = wire + StubCalls(taskKnown)
    /\ pc' = "poll"
    /\ UNCHANGED << results, background, ret, nfan, taskKnown, issued, owner, delivered,
                    failed >>

\* lines 164-173: run_until_complete returns or raises once the awaited
\* response is done
PollEnd ==
    /\ pc = "poll"
    /\ responses[Awaited] # "pending"
    /\ IF responses[Awaited] = "ok"
       THEN /\ running' = FALSE
            /\ status' = [status EXCEPT ![cur.task.coro] = "completed"]
            /\ failed' = failed
            /\ IF DeliverInline(cur.id, cur.task)
               THEN /\ ret' = [op |-> "poll", id |-> cur.id, kind |-> "Ready",
                               val |-> ShardResult(cur.req, Awaited),
                               line |-> 168]
                    /\ delivered' = delivered \cup {cur.id}
                    /\ results' = results
               ELSE /\ results' = Append(results,
                                   [id |-> cur.task.id,
                                    result |-> ShardResult(cur.req, Awaited)])
                    /\ ret' = [op |-> "poll", id |-> cur.id, kind |-> "NotReady",
                               val |-> None, line |-> 173]
                    /\ delivered' = delivered
       ELSE \* except Exception as e: print(...); falls through to return None
            /\ ret' = [op |-> "poll", id |-> cur.id, kind |-> "NotReady",
                       val |-> None, line |-> 173]
            /\ failed' = failed \cup {cur.task.id}
            /\ UNCHANGED << running, status, results, delivered >>
    /\ pc' = "idle"
    /\ cur' = NoCur
    /\ background' = background + LeftPending
    /\ responses' = AllPending
    /\ UNCHANGED << tasks, nfan, taskKnown, wire, issued, owner, started >>

\* ---- query ----
\* lines 141-143 and 118-123: run_until_complete(_query_in_tensor_parallel(...))
QueryBegin(req) ==
    /\ pc = "idle"
    /\ nfan < MaxFan
    /\ nfan' = nfan + 1
    /\ cur' = [id |-> 0, task |-> NoTask, req |-> req, fan |-> nfan + 1]
    /\ responses' = FanOut
    /\ wire' = wire + StubCalls(taskKnown)
    /\ pc' = "query"
    /\ UNCHANGED << tasks, results, running, background, ret, taskKnown, issued, owner,
                    started, delivered, failed, status >>

\* lines 125 and 141: the exception of the awaited call leaves
\* run_until_complete and query unchanged
Raised_swallowed(failure) == "NotReady"
Raised(failure) == failure

\* lines 125-126 and 144-145: response.result() returns or raises
QueryEnd ==
    /\ pc = "query"
    /\ responses[Awaited] # "pending"
    /\ ret' = IF responses[Awaited] = "ok"
              THEN [op |-> "query", id |-> 0, kind |-> "Ready",
                    val |-> ShardResult(cur.req, Awaited), line |-> 145]
              ELSE [op |-> "query", id |-> 0,
                    kind |-> Raised(responses[Awaited]), val |-> None,
                    line |-> 141]
    /\ pc' = "idle"
    /\ cur' = NoCur
    /\ background' = background + LeftPending
    /\ responses' = AllPending
    /\ UNCHANGED << tasks, results, running, nfan, taskKnown, wire, issued, owner,
                    started, delivered, failed, status >>

\* ---- the event loop ----
\* One shard call of the awaited fan-out (client._request_async_response,
\* lines 63-73) finishes, with a response or an exception, while the loop is
\* running.
ShardStep(i, outcome) ==
    /\ pc # "idle"
    /\ responses[i] = "pending"
    /\ responses' = [responses EXCEPT ![i] = outcome]
    /\ UNCHANGED << tasks, results, running, pc, cur, background, ret, nfan,
                    taskKnown, wire, issued, owner, started, delivered, failed, status >>

\* A call left pending by an earlier fan-out finishes while the loop is
\* running; nothing holds its task, so its outcome is dropped.
BackgroundStep ==
    /\ pc # "idle"
    /\ background > 0
    /\ background' = background - 1
    /\ UNCHANGED << tasks, results, running, pc, cur, responses, ret, nfan,
                    taskKnown, wire, issued, owner, started, delivered, failed, status >>

Next ==
    \/ \E n \in 1 .. NumShards : Construct(n)
    \/ \E h \in Handles : Submit(nfan + 1, h)
    \/ \E id \in Handles : PollCached(id)
    \/ \E id \in Handles : PollIdle(id)
    \/ \E id \in Handles : PollBegin(id)
    \/ PollEnd
    \/ QueryBegin(nfan + 1)
    \/ QueryEnd
    \/ \E i \in Shards, outcome \in Outcomes : ShardStep(i, outcome)
    \/ BackgroundStep

Spec == Init /\ [][Next]_vars

\* get_pending_task_result(id), whichever path it takes
Poll(id) == PollCached(id) \/ PollIdle(id) \/ PollBegin(id)

\* While a call is blocked in run_until_complete the loop runs: every pending
\* shard call ends (the transport answers or its deadline passes) and the
\* blocked call returns once its awaited response is done.  The caller is
\* free to make no further call.
FairLoop ==
    /\ Spec
    /\ WF_vars(PollEnd)
    /\ WF_vars(QueryEnd)
    /\ \A i \in Shards : WF_vars(\E outcome \in Outcomes : ShardStep(i, outcome))
    /\ WF_vars(BackgroundStep)

\* The same, with a caller that keeps polling every handle.
FairPoll == FairLoop /\ \A id \in Handles : WF_vars(Poll(id))

TypeOK ==
    /\ running \in BOOLEAN
    /\ pc \in {"idle", "poll", "query"}
    /\ nfan \in 0 .. MaxFan
    /\ taskKnown \in BOOLEAN
    /\ wire \in 0 .. (MaxFan * NumShards)
    /\ \A i \in Shards : responses[i] \in {"pending", "ok"} \cup Failures
    /\ issued \subseteq Handles
    /\ \A i \in 1 .. Len(tasks) : tasks[i].id \in Handles
    /\ \A i \in 1 .. Len(results) : results[i].id \in Handles

\* ---- steps of a behaviour, named for the properties below ----

\* a query_non_block call
SubmitStep == pc = "idle" /\ pc' = "idle" /\ Len(tasks') = Len(tasks) + 1

\* a get_pending_task_result call enters its drive step
DriveStep == pc = "idle" /\ pc' = "poll"

\* a get_pending_task_result call returns from its drive step
DriveReturn == pc = "poll" /\ pc' = "idle"

\* a get_pending_task_result call returns (with or without a drive step)
PollReturn == pc # "query" /\ pc' = "idle" /\ ret'.op = "poll"

RunningTasks == { c \in DOMAIN status : status[c] = "running" }

\* ---- C1 ----
\* C1: queued tasks are executed in submission order (whenever a task has
\* started, every task submitted before it has started earlier, and the
\* queue holds only tasks submitted after every started one), and the queue
\* shrinks only when a poll enters its drive step, by exactly its head, so
\* one poll call removes and executes at most one task.
FifoOrder ==
    /\ \A i, j \in 1 .. Len(started) : i < j => started[i] < started[j]
    /\ \A i, j \in 1 .. Len(tasks) : i < j => tasks[i].coro < tasks[j].coro
    /\ \A i \in 1 .. Len(started), j \in 1 .. Len(tasks) :
           started[i] < tasks[j].coro

OnePerPoll ==
    /\ (started' # started \/ Len(tasks') < Len(tasks)) =>
           /\ DriveStep
           /\ Len(tasks) > 0
           /\ tasks' = Tail(tasks)
           /\ started' = Append(started, tasks[1].coro)
    /\ DriveReturn => tasks' = tasks /\ started' = started

T_C1 == [] FifoOrder /\ [][OnePerPoll]_vars

W_C1 == pc = "idle" /\ Len(started) >= 2 /\ Len(tasks) >= 1

\* ---- C2 ----
\* C2: when a poll(h) drains the head task and the task succeeds, then if the
\* task's handle is h the call returns Ready with the task's result and the
\* cache is unchanged; otherwise the result is appended to the cache under
\* the task's own handle and the call returns NotReady for h.
T_C2 ==
    [][ (DriveReturn /\ responses[0] = "ok") =>
            /\ ret'.op = "poll" /\ ret'.id = cur.id
            /\ IF cur.task.id = cur.id
               THEN /\ ret'.kind = "Ready"
                    /\ ret'.val = ShardResult(cur.task.req, 0)
                    /\ results' = results
               ELSE /\ ret'.kind = "NotReady"
                    /\ ret'.val = None
                    /\ results' = Append(results,
                                    [id |-> cur.task.id,
                                     result |-> ShardResult(cur.task.req, 0)])
      ]_vars

W_C2 == pc = "idle" /\ ret.line = 168 /\ Len(results) > 0

\* ---- C3 ----
\* C3: once a poll(h) has returned Ready, every later poll(h) returns
\* NotReady.
X_C3 == [][ (PollReturn /\ ret'.id \in delivered) => ret'.kind = "NotReady" ]_vars

\* ---- C4 ----
\* C4: the handle returned by a submit differs from every handle returned by
\* an earlier submit.
X_C4 == [][ SubmitStep => ret'.val[1] \notin issued ]_vars

\* ---- C5 ----
\* C5: when the task executed by a drive step fails, the poll returns with
\* the running flag released and the queue as it was.
X_C5 ==
    [][ (DriveReturn /\ responses[0] \in Failures) =>
            (running' = FALSE /\ tasks' = tasks) ]_vars

\* ---- C6 ----
\* C6 as stated: a poll for a handle no submit has returned returns NotReady
\* and leaves the queue, the cache and the running flag as they were.
X_C6 ==
    [][ /\ (DriveStep /\ cur'.id \notin issued) =>
               UNCHANGED << tasks, results, running >>
        /\ (PollReturn /\ ret'.id \notin issued) => ret'.kind = "NotReady"
      ]_vars

\* C6 as amended: a poll for a handle no submit has returned always returns
\* NotReady and keeps every cache entry, but it runs the drive step like any
\* other poll: with nothing running and a non-empty queue it removes exactly
\* the head task, sets the running flag, and on success appends that task's
\* result to the cache under the task's own handle; without a drive step it
\* changes nothing.
T_C6 ==
    [][ /\ (DriveStep /\ cur'.id \notin issued) =>
               /\ ~running /\ running'
               /\ Len(tasks) > 0 /\ tasks' = Tail(tasks)
               /\ cur'.task = tasks[1]
               /\ results' = results
        /\ (DriveReturn /\ cur.id \notin issued) =>
               /\ ret'.op = "poll" /\ ret'.id = cur.id
               /\ ret'.kind = "NotReady"
               /\ tasks' = tasks
               /\ \/ results' = results
                  \/ results' = Append(results,
                                   [id |-> cur.task.id,
                                    result |-> ShardResult(cur.task.req, 0)])
        /\ (pc = "idle" /\ PollReturn /\ ret'.id \notin issued) =>
               /\ ret'.kind = "NotReady"
               /\ UNCHANGED << tasks, results, running >>
      ]_vars

W_C6 ==
    /\ pc = "idle" /\ ret.op = "poll" /\ ret.id \notin issued
    /\ Cardinality(DOMAIN status) = 1
    /\ Len(results) = 1

\* ---- C7 ----
\* C7: when shard 0's call succeeds, query returns shard 0's response to the
\* request, whatever the other shards' calls have done by then.
T_C7 ==
    [][ (pc = "query" /\ pc' = "idle" /\ responses[0] = "ok") =>
            /\ ret'.op = "query"
            /\ ret'.kind = "Ready"
            /\ ret'.val = ShardResult(cur.req, 0)
      ]_vars

W_C7 ==
    /\ pc = "idle" /\ ret.op = "query" /\ ret.kind = "Ready"
    /\ nfan = 1 /\ background > 0

\* ---- C8 ----
\* C8: a submit appends one queued task at the tail of the queue and returns
\* its handle; the earlier queue entries, the cache, the running flag, the
\* shard calls in flight and the set of executed tasks are unchanged.
T_C8 ==
    [][ SubmitStep =>
            /\ tasks' = Append(tasks, tasks'[Len(tasks')])
            /\ ret'.op = "submit" /\ ret'.kind = "Handle"
            /\ ret'.val = << tasks'[Len(tasks')].id >>
            /\ status'[tasks'[Len(tasks')].coro] = "queued"
            /\ tasks'[Len(tasks')].coro \notin DOMAIN status
            /\ UNCHANGED << results, running, responses, background, started >>
      ]_vars

W_C8 ==
    /\ pc = "idle" /\ ret.op = "submit"
    /\ Len(tasks) >= 2 /\ Len(results) >= 1

\* ---- C9 ----
\* C9: at most one task is in state running.
T_C9 == Cardinality(RunningTasks) <= 1

W_C9 ==
    /\ pc = "idle" /\ ret.op = "poll" /\ running
    /\ Cardinality(RunningTasks) = 1
    /\ Len(tasks) > 0

\* ---- C10 ----
\* C10: a drive step whose task fails returns NotReady and stores nothing in
\* the cache, and every later poll for the failed task's handle returns
\* NotReady.
X_C10 ==
    [][ /\ (DriveReturn /\ responses[0] \in Failures) =>
               /\ ret'.op = "poll" /\ ret'.kind = "NotReady"
               /\ results' = results
        /\ (PollReturn /\ ret'.id \in failed) => ret'.kind = "NotReady"
      ]_vars

\* ---- C11 ----
\* C11: when the client's task has no entry in the conversion table, every
\* shard call of a fan-out fails with UnknownTaskKind in its first step, and
\* no remote method is ever invoked on a stub.
T_C11 ==
    /\ [] (~taskKnown => wire = 0)
    /\ [][ (~taskKnown /\ pc = "idle" /\ pc' # "idle") =>
               /\ \A i \in Shards : responses'[i] = "UnknownTaskKind"
               /\ wire' = wire
         ]_vars

W_C11 ==
    /\ ~taskKnown /\ wire = 0
    /\ pc = "idle" /\ ret.op = "query" /\ ret.kind = "UnknownTaskKind"

\* ---- C12 ----
\* C12: when the call to shard 0 fails, with any of the three failures, the
\* query that awaits it ends by raising that failure: it returns no value and
\* leaves the queue, the cache and the running flag alone.
T_C12 ==
    [][ (pc = "query" /\ pc' = "idle" /\ responses[0] \in Failures) =>
            /\ ret'.op = "query"
            /\ ret'.kind = responses[0]
            /\ ret'.val = None
            /\ UNCHANGED << tasks, results, running >>
      ]_vars

W_C12 ==
    /\ pc = "idle" /\ ret.op = "query" /\ ret.kind = "MalformedResponse"
    /\ Len(tasks) > 0

\* ---- C13 ----
\* C13: the shard calls in flight all belong to one fan-out: while a call of
\* the fan-out being awaited is pending, no call of an earlier fan-out is.
X_C13 ==
    (pc # "idle" /\ \E i \in Shards : responses[i] = "pending") =>
        background = 0

\* ---- C14 ----
\* C14: every handle a submit has returned is eventually delivered to a
\* caller that keeps polling it.
X_C14 == \A h \in Handles : (h \in issued) ~> (h \in delivered)

\* ---- C15 ----
\* C15: a poll(h) made while the cache holds an entry for h returns that
\* entry's result as Ready and removes exactly that entry; the queue, the
\* running flag, the other cache entries, the executed tasks and the shard
\* calls are unchanged.
X_C15 ==
    [][ (/\ pc = "idle" /\ pc' = "idle" /\ ret'.op = "poll"
         /\ \E i \in 1 .. Len(results) : results[i].id = ret'.id) =>
            /\ ret'.kind = "Ready"
            /\ \E i \in 1 .. Len(results) :
                   /\ results[i].id = ret'.id
                   /\ ret'.val = results[i].result
                   /\ results' = [j \in 1 .. (Len(results) - 1) |->
                                     IF j < i THEN results[j] ELSE results[j + 1]]
            /\ UNCHANGED << tasks, running, started, wire, background >>
      ]_vars

\* ---- C16 ----
\* C16: whenever shard calls are in flight, they all eventually end, also
\* when the caller makes no further call.
InFlight == background + (IF pc = "idle" THEN 0 ELSE LeftPending)

X_C16 == (InFlight > 0) ~> (InFlight = 0)

\* ---- C17 ----
\* C17: with nothing running and the task of handle h at position k of the
\* queue, a poll(h) drains the head of the queue; if the drained task
\* succeeds, then for k > 1 the poll returns NotReady and the head's result
\* goes to the cache, and for k = 1 the poll returns Ready with h's result.
\* (Polling only h, the caller so gets NotReady k-1 times and Ready at the
\* k-th poll.)
X_C17 ==
    [][ /\ \A h \in Handles :
               (/\ pc = "idle" /\ ~running
                /\ \E k \in 1 .. Len(tasks) : tasks[k].id = h
                /\ \/ pc' = "poll" /\ cur'.id = h
                   \/ pc' = "idle" /\ ret'.op = "poll" /\ ret'.id = h) =>
                   /\ pc' = "poll"
                   /\ cur'.task = tasks[1]
                   /\ tasks' = Tail(tasks)
        /\ (DriveReturn /\ responses[0] = "ok" /\ cur.task.id = cur.id) =>
               /\ ret'.kind = "Ready"
               /\ ret'.val = ShardResult(cur.task.req, 0)
        /\ (/\ DriveReturn /\ responses[0] = "ok"
            /\ \E k \in 1 .. Len(tasks) : tasks[k].id = cur.id) =>
               /\ ret'.kind = "NotReady"
               /\ results' = Append(results,
                                [id |-> cur.task.id,
                                 result |-> ShardResult(cur.task.req, 0)])
      ]_vars

\* ---- C18 ----
\* C18: constructing the coordinator with a list of n >= 1 ports succeeds.
X_C18 ==
    [][ (pc = "idle" /\ pc' = "idle" /\ ret'.op = "init") =>
            ret'.kind = "Built" ]_vars

\* ---- C19 ----
\* C19: a poll(h) that returns Ready returns the shard-0 result of the
\* request passed to the submit that returned h; every cache entry holds the
\* result of the task submitted under its handle; no two cache entries have
\* the same handle, and no handle is in the queue and in the cache at once.
CacheOwned ==
    \A i \in 1 .. Len(results) :
        results[i].result = ShardResult(owner[results[i].id], 0)

CacheNoDup ==
    \A i, j \in 1 .. Len(results) : i # j => results[i].id # results[j].id

QueueCacheDisjoint ==
    \A i \in 1 .. Len(tasks), j \in 1 .. Len(results) :
        tasks[i].id # results[j].id

X_C19 ==
    /\ [] (CacheOwned /\ CacheNoDup /\ QueueCacheDisjoint)
    /\ [][ (PollReturn /\ ret'.kind = "Ready") =>
               ret'.val = ShardResult(owner[ret'.id], 0) ]_vars
====
